---- MODULE Spec2Model ----
(***************************************************************************)
(* A model of gfs.py: a master holding the file table, the chunk table and *)
(* the round-robin cursor, a pool of chunkservers writing chunk files      *)
(* under /tmp/gfs/chunks/<loc>/, and a client that splits a payload into   *)
(* chunks, stores them and reassembles them on read.                       *)
(*                                                                         *)
(* Every method of the program is an operator from a world (the record of  *)
(* all the program's state) to an outcome: the world after the call, and   *)
(* either the returned value or the exception raised.                      *)
(***************************************************************************)
EXTENDS Integers, Sequences, FiniteSets, TLC

VARIABLES
    filetable,      \* GFSMaster.filetable: file name -> list of chunk uuids
    chunktable,     \* GFSMaster.chunktable: chunk uuid -> chunkloc
    chunkrobin,     \* GFSMaster.chunkrobin: the round-robin cursor
    uuid_clock,     \* the number of uuid.uuid1() values generated so far
    fs,             \* the local file system: path of a chunk file -> its content
    cs_chunktable,  \* GFSChunkserver.chunktable of each server: uuid -> path
    last,           \* the call made by the last step, and its outcome
    ncalls,         \* the number of calls made so far
    written,        \* file name -> what was written and appended to it since its
                    \* last write, and the number of those appends
    stored,         \* chunkloc -> chunk uuid -> the last payload stored there
    cl,             \* client -> where it is in its call, and the call's locals
    done            \* client -> the last call it finished, and what it met

vars ==
    <<filetable, chunktable, chunkrobin, uuid_clock, fs, cs_chunktable,
      last, ncalls, written, stored, cl, done>>

-----------------------------------------------------------------------------
(* Program constants *)

num_chunkservers == 5

chunksize == 10

hidden_deleted == "/hidden/deleted/"

chunks_root == "/tmp/gfs/chunks/"

-----------------------------------------------------------------------------
(* Bounds of the model *)

\* the longest payload a client call is given
MaxLen == 23

\* the number of calls made in a run
MaxCalls == 3

\* the number of client calls begun in a run that goes call by call
MaxOps == 2

\* the number of client calls begun in a run of two clients
MaxRaceOps == 3

\* the most chunks a direct call of the master asks for
MaxAlloc == 1

\* the chunkservers 0..MaxLoc are the ones called directly
MaxLoc == 1

\* file names given to the calls; the last lies in the deleted namespace
Names == {"/a", "/b", hidden_deleted \o "1.0" \o "/a"}

\* file names given to the calls that go call by call
StepNames == {"/a", "/b"}

\* the one file the two clients of a race work on, and the lengths written
\* to it: none, below a chunk, chunks and a remainder
RaceNames == {"/a"}

RaceLengths == {0, MaxLen % chunksize, MaxLen}

\* values of repr(time.time()); the wall clock may repeat or step back
Timestamps == {"1.0", "2.0"}

\* payload lengths: none, below a chunk, whole chunks, chunks and a remainder
Lengths == {0, MaxLen % chunksize, chunksize, MaxLen}

\* the payload of length L given to the n-th call: its i-th byte is 100 n + i, so
\* that the payloads of two calls differ in every byte
Data(n, L) == [i \in 1..L |-> 100 * n + i]

\* chunk uuids and payloads given to the direct calls of a chunkserver
Uuids == {1, 2}

Chunks == {Data(0, MaxLen % chunksize), Data(0, chunksize), Data(1, chunksize)}

-----------------------------------------------------------------------------
(* Python dictionaries, and the outcome of a call *)

EmptyDict == [k \in {} |-> <<>>]

DictSet(d, k, v) == [x \in (DOMAIN d) \cup {k} |-> IF x = k THEN v ELSE d[x]]

DictDel(d, k) == [x \in (DOMAIN d) \ {k} |-> d[x]]

None == <<>>

Return(w, val) == [w |-> w, ok |-> TRUE, err |-> "", val |-> val]

Raise(w, err) == [w |-> w, ok |-> FALSE, err |-> err, val |-> None]

KeyError == "KeyError"

IOError == "IOError"

IndexError == "IndexError"

TypeError == "TypeError: reduce() of empty sequence with no initial value"

ReadError == "read error, file does not exist"

AppendError == "append error, file does not exist"

World ==
    [filetable |-> filetable, chunktable |-> chunktable, chunkrobin |-> chunkrobin,
     uuid_clock |-> uuid_clock, fs |-> fs, cs_chunktable |-> cs_chunktable]

-----------------------------------------------------------------------------
(* GFSChunkserver *)

local_filesystem_root(chunkloc) == <<chunks_root, chunkloc>>

\* chunk_filename as it would be if every server wrote under the one root
chunk_filename_shared_root(chunkloc, chunkuuid) ==
    <<chunks_root>> \o <<"/", chunkuuid, ".gfs">>

\* chunk_filename as it would be if the name left the chunk uuid out
chunk_filename_per_server(chunkloc, chunkuuid) ==
    local_filesystem_root(chunkloc) \o <<"/", ".gfs">>

chunk_filename(chunkloc, chunkuuid) ==
    local_filesystem_root(chunkloc) \o <<"/", chunkuuid, ".gfs">>

\* GFSChunkserver.write on the server at chunkloc
cs_write(w, chunkloc, chunkuuid, chunk) ==
    LET local_filename == chunk_filename(chunkloc, chunkuuid)
    IN  Return([w EXCEPT
                  !.fs = DictSet(w.fs, local_filename, chunk),
                  !.cs_chunktable[chunkloc] =
                      DictSet(w.cs_chunktable[chunkloc], chunkuuid, local_filename)],
               None)

\* GFSChunkserver.write raising: open() fails and no file is made (kept < 0), or
\* the file is opened, which empties it, and f.write or the closing flush fails
\* with the first kept bytes on the disk; self.chunktable is not reached
cs_write_fails(w, chunkloc, chunkuuid, chunk, kept) ==
    IF kept < 0 THEN Raise(w, IOError)
    ELSE Raise([w EXCEPT !.fs = DictSet(w.fs, chunk_filename(chunkloc, chunkuuid),
                                        SubSeq(chunk, 1, kept))],
               IOError)

\* GFSChunkserver.read as it would be if a missing chunk file read as no bytes
cs_read_missing_as_empty(w, chunkloc, chunkuuid) ==
    LET local_filename == chunk_filename(chunkloc, chunkuuid)
    IN  IF local_filename \in DOMAIN w.fs
        THEN Return(w, w.fs[local_filename])
        ELSE Return(w, <<>>)

\* GFSChunkserver.read on the server at chunkloc
cs_read(w, chunkloc, chunkuuid) ==
    LET local_filename == chunk_filename(chunkloc, chunkuuid)
    IN  IF local_filename \in DOMAIN w.fs
        THEN Return(w, w.fs[local_filename])
        ELSE Raise(w, IOError)

-----------------------------------------------------------------------------
(* GFSMaster *)

\* uuid1 as it would be on a clock that gives each value twice
uuid1_coarse_clock(w) ==
    Return([w EXCEPT !.uuid_clock = w.uuid_clock + 1], (w.uuid_clock \div 2) + 1)

\* uuid.uuid1(): a value never generated before
uuid1(w) == Return([w EXCEPT !.uuid_clock = w.uuid_clock + 1], w.uuid_clock + 1)

RECURSIVE alloc_chunks_loop(_, _, _, _)
alloc_chunks_loop(w, chunkuuids, i, num_chunks) ==
    IF i >= num_chunks
    THEN Return(w, chunkuuids)
    ELSE LET u == uuid1(w)
             chunkloc == u.w.chunkrobin
             w1 == [u.w EXCEPT
                      !.chunktable = DictSet(u.w.chunktable, u.val, chunkloc),
                      !.chunkrobin = (u.w.chunkrobin + 1) % num_chunkservers]
         IN  alloc_chunks_loop(w1, Append(chunkuuids, u.val), i + 1, num_chunks)

\* alloc_chunks as it would be with a cursor that restarts at each allocation
alloc_chunks_restart(w, num_chunks) ==
    alloc_chunks_loop([w EXCEPT !.chunkrobin = 0], <<>>, 0, num_chunks)

alloc_chunks(w, num_chunks) == alloc_chunks_loop(w, <<>>, 0, num_chunks)

\* alloc as it would be if a placement were recorded only when a chunk is stored
alloc_without_placement(w, filename, num_chunks) ==
    LET a == alloc_chunks(w, num_chunks)
    IN  Return([a.w EXCEPT !.filetable = DictSet(a.w.filetable, filename, a.val),
                           !.chunktable = w.chunktable],
               a.val)

alloc(w, filename, num_chunks) ==
    LET a == alloc_chunks(w, num_chunks)
    IN  Return([a.w EXCEPT !.filetable = DictSet(a.w.filetable, filename, a.val)],
               a.val)

\* alloc_append as it would be if it allocated before looking the file up
alloc_append_alloc_first(w, filename, num_append_chunks) ==
    LET a == alloc_chunks(w, num_append_chunks)
    IN  IF filename \notin DOMAIN w.filetable
        THEN Raise(a.w, KeyError)
        ELSE Return([a.w EXCEPT
                       !.filetable[filename] = a.w.filetable[filename] \o a.val],
                    a.val)

alloc_append(w, filename, num_append_chunks) ==
    IF filename \notin DOMAIN w.filetable
    THEN Raise(w, KeyError)
    ELSE LET a == alloc_chunks(w, num_append_chunks)
         IN  Return([a.w EXCEPT
                       !.filetable[filename] = a.w.filetable[filename] \o a.val],
                    a.val)

get_chunkloc(w, chunkuuid) ==
    IF chunkuuid \in DOMAIN w.chunktable
    THEN Return(w, w.chunktable[chunkuuid])
    ELSE Raise(w, KeyError)

get_chunkuuids(w, filename) ==
    IF filename \in DOMAIN w.filetable
    THEN Return(w, w.filetable[filename])
    ELSE Raise(w, KeyError)

exists(w, filename) == Return(w, filename \in DOMAIN w.filetable)

\* delete as it would be if it dropped the placement of the file's chunks
delete_purging(w, filename, timestamp) ==
    IF filename \notin DOMAIN w.filetable
    THEN Raise(w, KeyError)
    ELSE LET chunkuuids == w.filetable[filename]
             gone == {chunkuuids[i] : i \in 1..Len(chunkuuids)}
             deleted_filename == hidden_deleted \o timestamp \o filename
         IN  Return([w EXCEPT
                       !.filetable = DictSet(DictDel(w.filetable, filename),
                                             deleted_filename, chunkuuids),
                       !.chunktable = [c \in (DOMAIN w.chunktable) \ gone |->
                                          w.chunktable[c]]],
                    None)

\* delete as it would be if it kept the entry under the original name
delete_keeping_name(w, filename, timestamp) ==
    IF filename \notin DOMAIN w.filetable
    THEN Raise(w, KeyError)
    ELSE Return([w EXCEPT
                   !.filetable = DictSet(w.filetable,
                                         hidden_deleted \o timestamp \o filename,
                                         w.filetable[filename])],
                None)

\* timestamp is the value of repr(time.time()) read by the call
delete(w, filename, timestamp) ==
    IF filename \notin DOMAIN w.filetable
    THEN Raise(w, KeyError)
    ELSE LET chunkuuids == w.filetable[filename]
             deleted_filename == hidden_deleted \o timestamp \o filename
         IN  Return([w EXCEPT
                       !.filetable = DictSet(DictDel(w.filetable, filename),
                                             deleted_filename, chunkuuids)],
                    None)

-----------------------------------------------------------------------------
(* GFSClient *)

\* num_chunks as it would be if it always counted a last, partial chunk
num_chunks_plus_one(size) == (size \div chunksize) + 1

num_chunks(size) ==
    (size \div chunksize) + (IF size % chunksize > 0 THEN 1 ELSE 0)

\* the chunks as they would be if each slice ran one byte into the next
split_chunks_overlapping(data) ==
    LET xs == {x \in 0..(Len(data) - 1) : x % chunksize = 0}
        upto(x) == IF x + chunksize + 1 < Len(data) THEN x + chunksize + 1
                   ELSE Len(data)
    IN  [k \in 1..Cardinality(xs) |->
            SubSeq(data, (k - 1) * chunksize + 1, upto((k - 1) * chunksize))]

\* [ data[x:x+chunksize] for x in range(0, len(data), chunksize) ]
split_chunks(data) ==
    LET xs == {x \in 0..(Len(data) - 1) : x % chunksize = 0}
        upto(x) == IF x + chunksize < Len(data) THEN x + chunksize ELSE Len(data)
    IN  [k \in 1..Cardinality(xs) |->
            SubSeq(data, (k - 1) * chunksize + 1, upto((k - 1) * chunksize))]

RECURSIVE write_chunks_loop(_, _, _, _)
write_chunks_loop(w, chunkuuids, chunks, i) ==
    IF i > Len(chunkuuids)
    THEN Return(w, None)
    ELSE LET chunkuuid == chunkuuids[i]
             chunkloc == get_chunkloc(w, chunkuuid)
         IN  IF ~chunkloc.ok THEN Raise(w, chunkloc.err)
             ELSE IF i > Len(chunks) THEN Raise(w, IndexError)
             ELSE write_chunks_loop(
                      cs_write(w, chunkloc.val, chunkuuid, chunks[i]).w,
                      chunkuuids, chunks, i + 1)

\* write_chunks as it would be if its loop stopped one chunk early
write_chunks_one_short(w, chunkuuids, data) ==
    write_chunks_loop(w, SubSeq(chunkuuids, 1, Len(chunkuuids) - 1),
                      split_chunks(data), 1)

write_chunks(w, chunkuuids, data) ==
    write_chunks_loop(w, chunkuuids, split_chunks(data), 1)

client_exists(w, filename) == exists(w, filename)

client_delete(w, filename, timestamp) == delete(w, filename, timestamp)

client_write(w, filename, data, timestamp) ==
    LET w1 == IF client_exists(w, filename).val
              THEN client_delete(w, filename, timestamp).w
              ELSE w
        a == alloc(w1, filename, num_chunks(Len(data)))
    IN  write_chunks(a.w, a.val, data)

\* write_append as it would be if it created the file it does not find
client_write_append_create(w, filename, data) ==
    LET a == IF client_exists(w, filename).val
             THEN alloc_append(w, filename, num_chunks(Len(data)))
             ELSE alloc(w, filename, num_chunks(Len(data)))
    IN  write_chunks(a.w, a.val, data)

client_write_append(w, filename, data) ==
    IF ~client_exists(w, filename).val
    THEN Raise(w, AppendError)
    ELSE LET a == alloc_append(w, filename, num_chunks(Len(data)))
         IN  IF ~a.ok THEN Raise(a.w, a.err)
             ELSE write_chunks(a.w, a.val, data)

\* reduce(lambda x, y: x + y, chunks), chunks not empty
RECURSIVE reduce_concat(_)
reduce_concat(chunks) ==
    IF Len(chunks) = 1
    THEN chunks[1]
    ELSE reduce_concat(SubSeq(chunks, 1, Len(chunks) - 1)) \o chunks[Len(chunks)]

RECURSIVE read_loop(_, _, _, _)
read_loop(w, chunkuuids, chunks, i) ==
    IF i > Len(chunkuuids)
    THEN IF chunks = <<>> THEN Raise(w, TypeError)
         ELSE Return(w, reduce_concat(chunks))
    ELSE LET chunkloc == get_chunkloc(w, chunkuuids[i])
         IN  IF ~chunkloc.ok THEN Raise(w, chunkloc.err)
             ELSE LET chunk == cs_read(w, chunkloc.val, chunkuuids[i])
                  IN  IF ~chunk.ok THEN Raise(w, chunk.err)
                      ELSE read_loop(w, chunkuuids, Append(chunks, chunk.val), i + 1)

client_read(w, filename) ==
    IF ~client_exists(w, filename).val
    THEN Raise(w, ReadError)
    ELSE read_loop(w, get_chunkuuids(w, filename).val, <<>>, 1)

-----------------------------------------------------------------------------
(* A client's call, one call of the master or of a chunkserver at a time *)

Clients == {1, 2}

\* A local variable that holds a list of the file table holds the list itself:
\* key names the file table key the list is under now; a list that is under
\* no key any more, or never was, is held by value in snap.
NoRef == [key |-> "", snap |-> <<>>]

ListAt(filename) == [key |-> filename, snap |-> <<>>]

ListOf(chunkuuids) == [key |-> "", snap |-> chunkuuids]

Deref(w, ref) == IF ref.key # "" THEN w.filetable[ref.key] ELSE ref.snap

\* what becomes of a held list when delete moves the list of filename to
\* deleted_filename, in the world w before the call
AfterDelete(w, ref, filename, deleted_filename) ==
    IF ref.key = "" THEN ref
    ELSE IF ref.key = filename THEN ListAt(deleted_filename)
    ELSE IF ref.key = deleted_filename THEN ListOf(w.filetable[deleted_filename])
    ELSE ref

\* what becomes of a held list when alloc puts a new list under filename
AfterAlloc(w, ref, filename) ==
    IF ref.key # "" /\ ref.key = filename THEN ListOf(w.filetable[filename]) ELSE ref

\* a file's bytes, for the record of a call: the payloads of its chunks in order
ContentOf(w, filename) ==
    IF filename \in DOMAIN w.filetable
    THEN [exists |-> TRUE,
          data |-> LET ids == w.filetable[filename]
                       at(c) == chunk_filename(w.chunktable[c], c)
                       RECURSIVE cat(_)
                       cat(i) == IF i > Len(ids) THEN <<>>
                                 ELSE (IF /\ ids[i] \in DOMAIN w.chunktable
                                          /\ at(ids[i]) \in DOMAIN w.fs
                                       THEN w.fs[at(ids[i])] ELSE <<>>) \o cat(i + 1)
                   IN  cat(1)]
    ELSE [exists |-> FALSE, data |-> <<>>]

IdleLocals ==
    [pc |-> "idle", op |-> "", filename |-> "", data |-> <<>>,
     chunkuuids |-> NoRef, n |-> 0, i |-> 0, chunkuuid |-> 0, chunkloc |-> 0,
     chunks |-> <<>>,
     \* for the record of the call
     k |-> 0, before |-> [exists |-> FALSE, data |-> <<>>], overlaps |-> 0,
     with |-> 0, allocated |-> <<>>, chunkrobin0 |-> 0]

NothingDone ==
    [k |-> 0, op |-> "", filename |-> "", arg |-> <<>>,
     ok |-> TRUE, err |-> "", val |-> None,
     before |-> [exists |-> FALSE, data |-> <<>>],
     after |-> [exists |-> FALSE, data |-> <<>>],
     overlaps |-> 0, with |-> 0, allocated |-> <<>>, chunkrobin0 |-> 0,
     failed_at |-> 0]

-----------------------------------------------------------------------------
(* The state machine of one client calling one master *)

Call(op, filename, arg, out) ==
    [op |-> op, filename |-> filename, arg |-> arg,
     ok |-> out.ok, err |-> out.err, val |-> out.val]

Becomes(out, call) ==
    /\ ncalls < MaxCalls
    /\ ncalls' = ncalls + 1
    /\ filetable' = out.w.filetable
    /\ chunktable' = out.w.chunktable
    /\ chunkrobin' = out.w.chunkrobin
    /\ uuid_clock' = out.w.uuid_clock
    /\ fs' = out.w.fs
    /\ cs_chunktable' = out.w.cs_chunktable
    /\ last' = call
    /\ UNCHANGED <<cl, done>>

\* GFSMaster.__init__, GFSChunkserver.__init__
Init ==
    /\ filetable = EmptyDict
    /\ chunktable = EmptyDict
    /\ chunkrobin = 0
    /\ uuid_clock = 0
    /\ fs = EmptyDict      \* /tmp/gfs/chunks holds no chunk file of an earlier run
    /\ cs_chunktable = [i \in 0..(num_chunkservers - 1) |-> EmptyDict]
    /\ last = [op |-> "init", filename |-> "", arg |-> None,
               ok |-> TRUE, err |-> "", val |-> None]
    /\ ncalls = 0
    /\ written = EmptyDict
    /\ stored = [i \in 0..(num_chunkservers - 1) |-> EmptyDict]
    /\ cl = [c \in Clients |-> IdleLocals]
    /\ done = [c \in Clients |-> NothingDone]

Write ==
    \E filename \in Names, L \in Lengths, timestamp \in Timestamps :
        LET data == Data(ncalls, L)
            out == client_write(World, filename, data, timestamp)
        IN  /\ Becomes(out, Call("write", filename, data, out))
            /\ written' = DictSet(written, filename, [data |-> data, appends |-> 0])
            /\ UNCHANGED stored

WriteAppend ==
    \E filename \in Names, L \in Lengths :
        LET data == Data(ncalls, L)
            out == client_write_append(World, filename, data)
        IN  /\ Becomes(out, Call("write_append", filename, data, out))
            /\ written' =
                  IF out.ok /\ filename \in DOMAIN written
                  THEN [written EXCEPT ![filename] =
                           [data |-> @.data \o data, appends |-> @.appends + 1]]
                  ELSE written
            /\ UNCHANGED stored

Read ==
    \E filename \in Names :
        LET out == client_read(World, filename)
        IN  /\ Becomes(out, Call("read", filename, None, out))
            /\ UNCHANGED <<written, stored>>

Exists ==
    \E filename \in Names :
        LET out == client_exists(World, filename)
        IN  /\ Becomes(out, Call("exists", filename, None, out))
            /\ UNCHANGED <<written, stored>>

Delete ==
    \E filename \in Names, timestamp \in Timestamps :
        LET out == client_delete(World, filename, timestamp)
        IN  /\ Becomes(out, Call("delete", filename, timestamp, out))
            /\ written' = IF out.ok THEN DictDel(written, filename) ELSE written
            /\ UNCHANGED stored

Next == Write \/ WriteAppend \/ Read \/ Exists \/ Delete

Spec == Init /\ [][Next]_vars

-----------------------------------------------------------------------------
(* The master called directly, beside a client that reads *)

MasterAlloc ==
    \E filename \in Names, n \in 0..MaxAlloc :
        LET out == alloc(World, filename, n)
        IN  /\ Becomes(out, Call("master.alloc", filename, n, out))
            /\ UNCHANGED <<written, stored>>

MasterAllocAppend ==
    \E filename \in Names, n \in 0..MaxAlloc :
        LET out == alloc_append(World, filename, n)
        IN  /\ Becomes(out, Call("master.alloc_append", filename, n, out))
            /\ UNCHANGED <<written, stored>>

MasterGetChunkuuids ==
    \E filename \in Names :
        LET out == get_chunkuuids(World, filename)
        IN  /\ Becomes(out, Call("master.get_chunkuuids", filename, None, out))
            /\ UNCHANGED <<written, stored>>

MasterDelete ==
    \E filename \in Names, timestamp \in Timestamps :
        LET out == delete(World, filename, timestamp)
        IN  /\ Becomes(out, Call("master.delete", filename, timestamp, out))
            /\ UNCHANGED <<written, stored>>

NextMaster ==
    MasterAlloc \/ MasterAllocAppend \/ MasterGetChunkuuids \/ MasterDelete \/ Read

SpecMaster == Init /\ [][NextMaster]_vars

-----------------------------------------------------------------------------
(* The chunkservers called directly *)

ChunkserverWrite ==
    \E chunkloc \in 0..MaxLoc, chunkuuid \in Uuids, chunk \in Chunks :
        LET out == cs_write(World, chunkloc, chunkuuid, chunk)
            arg == [chunkloc |-> chunkloc, chunkuuid |-> chunkuuid, chunk |-> chunk]
        IN  /\ Becomes(out, Call("chunkserver.write", "", arg, out))
            /\ stored' = [stored EXCEPT ![chunkloc] = DictSet(@, chunkuuid, chunk)]
            /\ UNCHANGED written

ChunkserverRead ==
    \E chunkloc \in 0..MaxLoc, chunkuuid \in Uuids :
        LET out == cs_read(World, chunkloc, chunkuuid)
            arg == [chunkloc |-> chunkloc, chunkuuid |-> chunkuuid, chunk |-> None]
        IN  /\ Becomes(out, Call("chunkserver.read", "", arg, out))
            /\ UNCHANGED <<written, stored>>

NextChunkserver == ChunkserverWrite \/ ChunkserverRead

SpecChunkserver == Init /\ [][NextChunkserver]_vars

-----------------------------------------------------------------------------
(* Clients going call by call: between two calls of one client, another
   client's calls may run *)

SetWorld(w) ==
    /\ filetable' = w.filetable
    /\ chunktable' = w.chunktable
    /\ chunkrobin' = w.chunkrobin
    /\ uuid_clock' = w.uuid_clock
    /\ fs' = w.fs
    /\ cs_chunktable' = w.cs_chunktable

Keep(ref) == ref

\* client c goes on with the locals given; held(ref) is what the call just
\* made does to the lists the other clients hold
GoOn(c, w, locals, held(_)) ==
    /\ SetWorld(w)
    /\ cl' = [o \in Clients |->
                 IF o = c THEN locals
                 ELSE [cl[o] EXCEPT !.chunkuuids = held(@)]]
    /\ UNCHANGED <<done, last, ncalls, written, stored>>

\* client c's call returns or raises
Finish(c, w, out, failed_at, held(_)) ==
    /\ SetWorld(w)
    /\ cl' = [o \in Clients |->
                 IF o = c THEN IdleLocals
                 ELSE [cl[o] EXCEPT !.chunkuuids = held(@)]]
    /\ done' = [done EXCEPT ![c] =
                   [k |-> cl[c].k, op |-> cl[c].op, filename |-> cl[c].filename,
                    arg |-> cl[c].data, ok |-> out.ok, err |-> out.err,
                    val |-> out.val, before |-> cl[c].before,
                    after |-> ContentOf(w, cl[c].filename),
                    overlaps |-> cl[c].overlaps, with |-> cl[c].with,
                    allocated |-> cl[c].allocated,
                    chunkrobin0 |-> cl[c].chunkrobin0, failed_at |-> failed_at]]
    /\ last' = Call(cl[c].op, cl[c].filename, cl[c].data, out)
    /\ UNCHANGED <<ncalls, written, stored>>

\* client c enters one of the calls ops: GFSClient.write, write_append, read,
\* exists or delete
Begin(c, ops, names, lengths, most) ==
    /\ cl[c].pc = "idle"
    /\ ncalls < most
    /\ \E op \in ops, filename \in names :
         \E L \in IF op \in {"write", "write_append"} THEN lengths ELSE {0} :
            LET running == {o \in Clients \ {c} : cl[o].pc # "idle"}
                k == ncalls + 1
            IN  /\ cl' = [o \in Clients |->
                            IF o = c
                            THEN [IdleLocals EXCEPT
                                    !.pc = IF op = "delete" THEN "delete" ELSE "exists",
                                    !.op = op,
                                    !.filename = filename,
                                    !.data = Data(ncalls, L),
                                    !.k = k,
                                    !.before = ContentOf(World, filename),
                                    !.overlaps = Cardinality(running),
                                    !.with = IF running = {} THEN 0
                                             ELSE cl[CHOOSE r \in running : TRUE].k,
                                    !.chunkrobin0 = chunkrobin]
                            ELSE IF o \in running
                            THEN [cl[o] EXCEPT !.overlaps = @ + 1, !.with = k]
                            ELSE cl[o]]
                /\ ncalls' = k
                /\ UNCHANGED <<filetable, chunktable, chunkrobin, uuid_clock, fs,
                               cs_chunktable, last, written, stored, done>>

\* self.master.exists(filename), and the branch the caller takes on it
CallExists(c) ==
    /\ cl[c].pc = "exists"
    /\ LET out == exists(World, cl[c].filename)
           to(pc) == GoOn(c, out.w, [cl[c] EXCEPT !.pc = pc], Keep)
       IN  CASE cl[c].op = "write" ->
                    IF out.val THEN to("delete") ELSE to("alloc")
             [] cl[c].op = "write_append" ->
                    IF out.val THEN to("alloc_append")
                    ELSE Finish(c, out.w, Raise(out.w, AppendError), 0, Keep)
             [] cl[c].op = "read" ->
                    IF out.val THEN to("get_chunkuuids")
                    ELSE Finish(c, out.w, Raise(out.w, ReadError), 0, Keep)
             [] OTHER -> Finish(c, out.w, out, 0, Keep)

\* self.master.delete(filename), from GFSClient.delete or GFSClient.write
CallDelete(c) ==
    /\ cl[c].pc = "delete"
    /\ \E timestamp \in Timestamps :
         LET filename == cl[c].filename
             out == delete(World, filename, timestamp)
             deleted_filename == hidden_deleted \o timestamp \o filename
             held(ref) == IF out.ok
                          THEN AfterDelete(World, ref, filename, deleted_filename)
                          ELSE ref
         IN  IF out.ok /\ cl[c].op = "write"
             THEN GoOn(c, out.w, [cl[c] EXCEPT !.pc = "alloc"], held)
             ELSE Finish(c, out.w, out, 0, held)

\* chunkuuids = self.master.alloc(filename, num_chunks)
CallAlloc(c) ==
    /\ cl[c].pc = "alloc"
    /\ LET filename == cl[c].filename
           out == alloc(World, filename, num_chunks(Len(cl[c].data)))
           held(ref) == AfterAlloc(World, ref, filename)
       IN  GoOn(c, out.w,
                [cl[c] EXCEPT !.pc = "get_chunkservers",
                              !.chunkuuids = ListAt(filename),
                              !.allocated = out.val],
                held)

\* append_chunkuuids = self.master.alloc_append(filename, num_append_chunks)
CallAllocAppend(c) ==
    /\ cl[c].pc = "alloc_append"
    /\ LET out == alloc_append(World, cl[c].filename, num_chunks(Len(cl[c].data)))
       IN  IF out.ok
           THEN GoOn(c, out.w,
                     [cl[c] EXCEPT !.pc = "get_chunkservers",
                                   !.chunkuuids = ListOf(out.val),
                                   !.allocated = out.val],
                     Keep)
           ELSE Finish(c, out.w, out, 0, Keep)

\* chunkuuids = self.master.get_chunkuuids(filename)
CallGetChunkuuids(c) ==
    /\ cl[c].pc = "get_chunkuuids"
    /\ LET out == get_chunkuuids(World, cl[c].filename)
       IN  IF out.ok
           THEN GoOn(c, out.w,
                     [cl[c] EXCEPT !.pc = "get_chunkservers",
                                   !.chunkuuids = ListAt(cl[c].filename)],
                     Keep)
           ELSE Finish(c, out.w, out, 0, Keep)

\* chunkservers = self.master.get_chunkservers(); write_chunks then takes
\* range(0, len(chunkuuids)) once, read starts to iterate over the list
CallGetChunkservers(c) ==
    /\ cl[c].pc = "get_chunkservers"
    /\ IF cl[c].op = "read"
       THEN GoOn(c, World, [cl[c] EXCEPT !.pc = "for", !.i = 0, !.chunks = <<>>], Keep)
       ELSE LET chunkuuids == Deref(World, cl[c].chunkuuids)
                n == Len(chunkuuids)
            IN  IF n = 0
                THEN Finish(c, World, Return(World, None), 0, Keep)
                ELSE GoOn(c, World,
                          [cl[c] EXCEPT !.pc = "get_chunkloc", !.i = 0, !.n = n,
                                        !.chunks = split_chunks(cl[c].data),
                                        !.chunkuuid = chunkuuids[1]],
                          Keep)

\* read's "for chunkuuid in chunkuuids" asks the list, as it is now, for its
\* next element; at the end of the list, data = reduce(lambda x, y: x + y, chunks)
ForNext(c) ==
    /\ cl[c].pc = "for"
    /\ LET chunkuuids == Deref(World, cl[c].chunkuuids)
       IN  IF cl[c].i < Len(chunkuuids)
           THEN GoOn(c, World,
                     [cl[c] EXCEPT !.pc = "get_chunkloc",
                                   !.chunkuuid = chunkuuids[cl[c].i + 1]],
                     Keep)
           ELSE Finish(c, World,
                       IF cl[c].chunks = <<>> THEN Raise(World, TypeError)
                       ELSE Return(World, reduce_concat(cl[c].chunks)),
                       0, Keep)

\* chunkloc = self.master.get_chunkloc(chunkuuid)
CallGetChunkloc(c) ==
    /\ cl[c].pc = "get_chunkloc"
    /\ LET out == get_chunkloc(World, cl[c].chunkuuid)
       IN  IF out.ok
           THEN GoOn(c, out.w,
                     [cl[c] EXCEPT !.pc = IF cl[c].op = "read" THEN "cs_read"
                                          ELSE "cs_write",
                                   !.chunkloc = out.val],
                     Keep)
           ELSE Finish(c, out.w, out, 0, Keep)

\* chunkservers[chunkloc].write(chunkuuid, chunks[i]), and the step of the loop
CallChunkserverWrite(c) ==
    /\ cl[c].pc = "cs_write"
    /\ LET i == cl[c].i
       IN  IF i >= Len(cl[c].chunks)
           THEN Finish(c, World, Raise(World, IndexError), 0, Keep)
           ELSE LET out == cs_write(World, cl[c].chunkloc, cl[c].chunkuuid,
                                    cl[c].chunks[i + 1])
                    chunkuuids == Deref(out.w, cl[c].chunkuuids)
                IN  IF i + 1 < cl[c].n
                    THEN GoOn(c, out.w,
                              [cl[c] EXCEPT !.pc = "get_chunkloc", !.i = i + 1,
                                            !.chunkuuid = chunkuuids[i + 2]],
                              Keep)
                    ELSE Finish(c, out.w, Return(out.w, None), 0, Keep)

\* chunkservers[chunkloc].write(chunkuuid, chunks[i]) fails: the exception
\* leaves write_chunks and the client's call
ChunkserverWriteFails(c) ==
    /\ cl[c].pc = "cs_write"
    /\ cl[c].i < Len(cl[c].chunks)
    /\ \E kept \in {-1, 0, Len(cl[c].chunks[cl[c].i + 1]) - 1} :
         LET out == cs_write_fails(World, cl[c].chunkloc, cl[c].chunkuuid,
                                   cl[c].chunks[cl[c].i + 1], kept)
         IN  Finish(c, out.w, out, cl[c].i + 1, Keep)

\* chunk = chunkservers[chunkloc].read(chunkuuid); chunks.append(chunk)
CallChunkserverRead(c) ==
    /\ cl[c].pc = "cs_read"
    /\ LET out == cs_read(World, cl[c].chunkloc, cl[c].chunkuuid)
       IN  IF out.ok
           THEN GoOn(c, out.w,
                     [cl[c] EXCEPT !.pc = "for", !.i = @ + 1,
                                   !.chunks = Append(@, out.val)],
                     Keep)
           ELSE Finish(c, out.w, out, 0, Keep)

CallsOf(c) ==
    \/ CallExists(c)
    \/ CallDelete(c)
    \/ CallAlloc(c)
    \/ CallAllocAppend(c)
    \/ CallGetChunkuuids(c)
    \/ CallGetChunkservers(c)
    \/ ForNext(c)
    \/ CallGetChunkloc(c)
    \/ CallChunkserverWrite(c)
    \/ CallChunkserverRead(c)

\* one client, whose stores on a chunkserver may fail
BeginAny ==
    Begin(1, {"write", "write_append", "read", "exists", "delete"}, StepNames, Lengths,
          MaxOps)

NextSteps == BeginAny \/ CallsOf(1) \/ ChunkserverWriteFails(1)

SpecSteps == Init /\ [][NextSteps]_vars

\* two clients, no failure: client 1 writes and appends, client 2 reads once
WriterBegins ==
    Begin(1, {"write", "write_append"}, RaceNames, RaceLengths, MaxRaceOps)

ReaderBegins == done[2].k = 0 /\ Begin(2, {"read"}, RaceNames, {0}, MaxRaceOps)

NextRace == WriterBegins \/ ReaderBegins \/ \E c \in Clients : CallsOf(c)

SpecRace == Init /\ [][NextRace]_vars

-----------------------------------------------------------------------------
(* What the properties speak of *)

\* a key of the deleted namespace
IsDeletedName(filename) ==
    /\ Len(filename) >= Len(hidden_deleted)
    /\ SubSeq(filename, 1, Len(hidden_deleted)) = hidden_deleted

RECURSIVE Concat(_)
Concat(seqs) == IF seqs = <<>> THEN <<>> ELSE Head(seqs) \o Concat(Tail(seqs))

\* the payload held for a chunk uuid by the server the chunk table names for it
PayloadOf(w, chunkuuid) ==
    LET path == chunk_filename(w.chunktable[chunkuuid], chunkuuid)
    IN  IF path \in DOMAIN w.fs THEN w.fs[path] ELSE <<>>

\* the bytes a file holds: the payloads of its chunks, in the order of its list
Contents(w, filename) ==
    LET ids == w.filetable[filename]
    IN  Concat([i \in 1..Len(ids) |-> PayloadOf(w, ids[i])])

\* the chunk uuids of a list, as a set
Ids(chunkuuids) == {chunkuuids[i] : i \in 1..Len(chunkuuids)}

\* the error kinds that say a file or a chunk is not there
NotFound(err) == err \in {KeyError, ReadError, IOError}

\* what a call gave its caller
Outcome(out) == [ok |-> out.ok, err |-> out.err, val |-> out.val]

\* the least n with n * chunksize >= L
CeilDiv(L) == CHOOSE n \in 0..L : n * chunksize >= L /\ (n = 0 \/ (n - 1) * chunksize < L)

-----------------------------------------------------------------------------
(* C1. Round trip: a read of f right after write(f, d) returns exactly d,     *)
(* whatever the length of d (none, below a chunk, whole chunks, a remainder). *)
C1_RoundTrip ==
    (last.op = "write" /\ last.ok) =>
        client_read(World, last.filename) = Return(World, last.arg)

(* C2. Append composition: after write(f, d0) and k >= 1 appends d1 .. dk to  *)
(* f, with no other write or delete of f in between, a read of f returns      *)
(* d0 + d1 + ... + dk.                                                        *)
C2_AppendComposition ==
    \A f \in DOMAIN written :
        written[f].appends >= 1 =>
            client_read(World, f) = Return(World, written[f].data)

(* C3. Delete semantics: a delete of an existing file f leaves f not          *)
(* existing, a read of f failing as not found, and a key of the deleted       *)
(* namespace holding the chunk list f had, through which a read returns the   *)
(* content f had.                                                             *)
C3_DeleteSemantics ==
    [][(last'.op = "delete" /\ last'.ok) =>
          LET f == last'.filename
          IN  /\ ~client_exists(World', f).val
              /\ client_read(World', f) = Raise(World', ReadError)
              /\ \E k \in DOMAIN filetable' :
                    /\ IsDeletedName(k)
                    /\ filetable'[k] = filetable[f]
                    /\ client_read(World', k) = Return(World', Contents(World, f))
      ]_vars

(* C4. Overwrite: write(f, d1) then write(f, d2): a read of f returns d2, the *)
(* list of f holds none of the chunk uuids of the first write, and a key of   *)
(* the deleted namespace holds them in their order.                           *)
C4_Overwrite ==
    [][(last.op = "write" /\ last'.op = "write" /\ last'.filename = last.filename) =>
          LET f == last'.filename
          IN  /\ client_read(World', f) = Return(World', last'.arg)
              /\ Ids(filetable'[f]) \cap Ids(filetable[f]) = {}
              /\ \E k \in DOMAIN filetable' :
                    IsDeletedName(k) /\ filetable'[k] = filetable[f]
      ]_vars

(* C5. Append precondition: write_append on a name with no file table entry   *)
(* fails with the append error and allocates nothing: file table, chunk       *)
(* table, cursor and the servers' payloads stay as they were.                 *)
C5_AppendPrecondition ==
    [][(last'.op = "write_append" /\ last'.filename \notin DOMAIN filetable) =>
          /\ ~last'.ok
          /\ last'.err = AppendError
          /\ filetable' = filetable
          /\ chunktable' = chunktable
          /\ chunkrobin' = chunkrobin
          /\ uuid_clock' = uuid_clock
          /\ fs' = fs
          /\ cs_chunktable' = cs_chunktable
      ]_vars

C5_Witness ==
    /\ last.op = "write_append"
    /\ ~last.ok
    /\ Len(last.arg) > chunksize
    /\ DOMAIN filetable # {}
    /\ uuid_clock > 0

(* C6. Round robin with one cursor for all files: the k-th chunk allocated    *)
(* since the master started (k from 0) is placed on server k mod N, and the   *)
(* cursor is the number of chunks allocated so far mod N, whatever calls      *)
(* (deletes, reads, failed calls) were made in between.                       *)
C6_RoundRobin ==
    /\ chunkrobin = uuid_clock % num_chunkservers
    /\ DOMAIN chunktable = 1..uuid_clock
    /\ \A k \in 0..(uuid_clock - 1) : chunktable[k + 1] = k % num_chunkservers

C6_Witness ==
    /\ uuid_clock > num_chunkservers
    /\ last.op = "delete"
    /\ last.ok
    /\ Cardinality(DOMAIN filetable) >= 2

(* C7. Chunk count: write and write_append of a payload of length L add       *)
(* exactly ceil(L / chunksize) entries to the chunk table and as many chunk   *)
(* uuids to the file's list; none for L = 0.                                  *)
C7_ChunkCount ==
    [][/\ \A L \in 0..(MaxLen + chunksize) : num_chunks(L) = CeilDiv(L)
       /\ (\/ last'.op = "write"
           \/ last'.op = "write_append" /\ last'.filename \in DOMAIN filetable) =>
          LET f == last'.filename
              n == CeilDiv(Len(last'.arg))
              before == IF last'.op = "write_append" THEN Len(filetable[f]) ELSE 0
          IN  /\ num_chunks(Len(last'.arg)) = n
              /\ Cardinality(DOMAIN chunktable') = Cardinality(DOMAIN chunktable) + n
              /\ uuid_clock' = uuid_clock + n
              /\ Len(filetable'[f]) = before + n
      ]_vars

C7_Witness ==
    /\ last.op = "write_append"
    /\ last.ok
    /\ Len(last.arg) > chunksize
    /\ Len(last.arg) % chunksize > 0
    /\ Cardinality(DOMAIN chunktable) > num_chunks(Len(last.arg))

(* C8. Soft delete never loses chunks: every chunk uuid ever allocated is in  *)
(* the list of some file table key, whatever timestamps the deletes read.     *)
C8_NoChunkLost ==
    \A c \in 1..uuid_clock : \E k \in DOMAIN filetable : c \in Ids(filetable[k])

(* C9. Not-found failures change nothing: the master's delete,              *)
(* get_chunkuuids and alloc_append and the client's read, called with a name  *)
(* that has no file table entry, fail as not found and leave file table,      *)
(* chunk table, cursor and the servers' payloads as they were; alloc_append   *)
(* generates no chunk uuid before it fails.                                   *)
C9_NotFoundChangesNothing ==
    [][(/\ last'.op \in {"master.delete", "master.get_chunkuuids",
                         "master.alloc_append", "read"}
        /\ last'.filename \notin DOMAIN filetable) =>
          /\ ~last'.ok
          /\ NotFound(last'.err)
          /\ filetable' = filetable
          /\ chunktable' = chunktable
          /\ chunkrobin' = chunkrobin
          /\ uuid_clock' = uuid_clock
          /\ fs' = fs
          /\ cs_chunktable' = cs_chunktable
      ]_vars

C9_Witness ==
    /\ last.op = "master.alloc_append"
    /\ ~last.ok
    /\ last.arg > 0
    /\ uuid_clock > 0
    /\ DOMAIN filetable # {}

(* C10. Chunkserver store and retrieve: a read of c on a server fails as not  *)
(* found when c was never written on that server and otherwise returns the    *)
(* payload of the last write of c there; a write of the payload c already     *)
(* holds changes nothing; a write of c on a server changes neither another    *)
(* chunk of that server nor anything of another server.                       *)
C10_StoreRetrieve ==
    [][/\ last'.op = "chunkserver.read" =>
            LET s == last'.arg.chunkloc
                c == last'.arg.chunkuuid
            IN  /\ IF c \in DOMAIN stored[s]
                   THEN last'.ok /\ last'.val = stored[s][c]
                   ELSE ~last'.ok /\ NotFound(last'.err)
                /\ World' = World
       /\ last'.op = "chunkserver.write" =>
            LET s == last'.arg.chunkloc
                c == last'.arg.chunkuuid
            IN  /\ last'.ok
                /\ (c \in DOMAIN stored[s] /\ stored[s][c] = last'.arg.chunk)
                      => World' = World
                /\ \A s2 \in 0..(num_chunkservers - 1), c2 \in Uuids :
                      <<s2, c2>> # <<s, c>> =>
                          Outcome(cs_read(World', s2, c2)) = Outcome(cs_read(World, s2, c2))
                /\ \A s2 \in 0..(num_chunkservers - 1) :
                      s2 # s => cs_chunktable'[s2] = cs_chunktable[s2]
                /\ \A c2 \in DOMAIN cs_chunktable[s] :
                      c2 # c => cs_chunktable'[s][c2] = cs_chunktable[s][c2]
      ]_vars

C10_Witness ==
    /\ last.op = "chunkserver.read"
    /\ last.ok
    /\ \E s2 \in 0..(num_chunkservers - 1) :
          /\ s2 # last.arg.chunkloc
          /\ last.arg.chunkuuid \in DOMAIN stored[s2]
          /\ stored[s2][last.arg.chunkuuid] # last.val

(* C12. Chunk splitting is positional: after write or write_append of d the  *)
(* i-th chunk uuid the allocation returned holds, on the server the master    *)
(* locates for it, bytes i*chunksize .. min((i+1)*chunksize, len(d)) of d; the*)
(* slices follow one another without overlap, all but the last are chunksize  *)
(* long, the last is 1..chunksize long, and there are as many slices as uuids.*)
C12_PositionalSplit ==
    [][(last'.op \in {"write", "write_append"} /\ last'.ok) =>
          LET f == last'.filename
              d == last'.arg
              L == Len(d)
              had == IF last'.op = "write_append" THEN Len(filetable[f]) ELSE 0
              new == SubSeq(filetable'[f], had + 1, Len(filetable'[f]))
              n == Len(new)
              end(i) == IF i * chunksize < L THEN i * chunksize ELSE L
              path(i) == chunk_filename(get_chunkloc(World', new[i]).val, new[i])
          IN  /\ n = CeilDiv(L)
              /\ \A i \in 1..n :
                    /\ path(i) \in DOMAIN fs'
                    /\ fs'[path(i)] = SubSeq(d, (i - 1) * chunksize + 1, end(i))
                    /\ i < n => Len(fs'[path(i)]) = chunksize
                    /\ i = n => Len(fs'[path(i)]) \in 1..chunksize
              /\ Concat([i \in 1..n |-> fs'[path(i)]]) = d
      ]_vars

C12_Witness ==
    /\ last.op = "write_append"
    /\ last.ok
    /\ Len(last.arg) = MaxLen
    /\ Len(filetable[last.filename]) > num_chunks(MaxLen)

(* C13. Placement is immutable and uuids are never reused: no step removes or *)
(* changes a chunk table entry, and every uuid an allocation generates is one *)
(* that no earlier allocation generated.                                      *)
C13_PlacementImmutable ==
    [][/\ \A c \in DOMAIN chunktable :
             c \in DOMAIN chunktable' /\ chunktable'[c] = chunktable[c]
       /\ Cardinality((DOMAIN chunktable') \ (DOMAIN chunktable))
             = uuid_clock' - uuid_clock
       /\ \A k \in DOMAIN filetable' :
             Ids(filetable'[k]) \ (DOMAIN chunktable) # {} =>
                 /\ last'.filename = k
                 /\ \A c \in Ids(filetable'[k]) \ (DOMAIN chunktable) :
                       \A k2 \in DOMAIN filetable : c \notin Ids(filetable[k2])
      ]_vars

C13_Witness ==
    /\ last.op = "write_append"
    /\ last.ok
    /\ uuid_clock > num_chunkservers
    /\ \E k \in DOMAIN filetable : IsDeletedName(k) /\ filetable[k] # <<>>

(* C14. Delete touches only the file table: a delete that succeeds leaves the *)
(* chunk table, the cursor, every chunk file and every server's index as they *)
(* were.                                                                      *)
C14_DeleteFrame ==
    [][(last'.op = "delete" /\ last'.ok) =>
          /\ chunktable' = chunktable
          /\ chunkrobin' = chunkrobin
          /\ uuid_clock' = uuid_clock
          /\ fs' = fs
          /\ cs_chunktable' = cs_chunktable
      ]_vars

C14_Witness ==
    /\ last.op = "delete"
    /\ last.ok
    /\ \E k \in DOMAIN filetable :
          /\ k = hidden_deleted \o last.arg \o last.filename
          /\ Len(filetable[k]) > 1
    /\ chunkrobin # 0

(* C16. Payload availability: between the client's calls, no store having     *)
(* failed, every chunk uuid in the list of a file table key has a chunk file  *)
(* on the server the chunk table names for it and on no other server, of      *)
(* 1..chunksize bytes.                                                        *)
C16_PayloadAvailable ==
    \A k \in DOMAIN filetable :
        \A c \in Ids(filetable[k]) :
            /\ c \in DOMAIN chunktable
            /\ \A s \in 0..(num_chunkservers - 1) :
                  /\ chunk_filename(s, c) \in DOMAIN fs <=> s = chunktable[c]
                  /\ c \in DOMAIN cs_chunktable[s] <=> s = chunktable[c]
            /\ Len(fs[chunk_filename(chunktable[c], c)]) \in 1..chunksize

C16_Witness ==
    /\ uuid_clock > num_chunkservers
    /\ \E k \in DOMAIN filetable : IsDeletedName(k) /\ filetable[k] # <<>>
    /\ \E k \in DOMAIN filetable : ~IsDeletedName(k) /\ Len(filetable[k]) > 1

(* C17. No chunk sharing: no chunk uuid is twice in the list of a file table  *)
(* key, and the lists of two keys have no chunk uuid in common.               *)
C17_NoChunkSharing ==
    /\ \A k \in DOMAIN filetable :
          Cardinality(Ids(filetable[k])) = Len(filetable[k])
    /\ \A k1, k2 \in DOMAIN filetable :
          k1 # k2 => Ids(filetable[k1]) \cap Ids(filetable[k2]) = {}

C17_Witness ==
    /\ last.op = "write_append"
    /\ last.ok
    /\ \E k1, k2 \in DOMAIN filetable :
          /\ IsDeletedName(k1)
          /\ ~IsDeletedName(k2)
          /\ filetable[k1] # <<>>
          /\ Len(filetable[k2]) > 1

(* C18. File isolation: for names f # g outside the deleted namespace, f      *)
(* existing, a client call on g (write, write_append, delete, read, exists),  *)
(* failing or not, leaves the list of f and the chunk files of f's chunks as  *)
(* they were, and a read of f gives what it gave before.                      *)
C18_FileIsolation ==
    [][\A f \in DOMAIN filetable :
          (/\ ~IsDeletedName(f)
           /\ ~IsDeletedName(last'.filename)
           /\ last'.filename # f
           /\ last'.op \in {"write", "write_append", "delete", "read", "exists"}) =>
              /\ f \in DOMAIN filetable'
              /\ filetable'[f] = filetable[f]
              /\ \A c \in Ids(filetable[f]) :
                    /\ chunktable'[c] = chunktable[c]
                    /\ PayloadOf(World', c) = PayloadOf(World, c)
              /\ Outcome(client_read(World', f)) = Outcome(client_read(World, f))
      ]_vars

C18_Witness ==
    /\ last.op = "write"
    /\ last.filename = "/b"
    /\ Len(last.arg) = MaxLen
    /\ "/a" \in DOMAIN filetable
    /\ Len(filetable["/a"]) > 1
    /\ \E k \in DOMAIN filetable : IsDeletedName(k)

\* C11: in every state, the states between the calls of a client's operation
\* included (after the master has allocated, before and between the stores on
\* the chunkservers), every chunk id in the list of any file table key, live or
\* deleted, has its entry in the chunk table, and the entry is a server index
\* in 0..num_chunkservers-1.
C11_MetadataInvariant ==
    \A k \in DOMAIN filetable :
        \A j \in 1..Len(filetable[k]) :
            /\ filetable[k][j] \in DOMAIN chunktable
            /\ chunktable[filetable[k][j]] \in 0..(num_chunkservers - 1)

\* a write over a file is between two of its stores, and the deleted key holds
\* the chunks of the file written over
C11_Witness ==
    /\ cl[1].pc = "get_chunkloc"
    /\ cl[1].op = "write"
    /\ cl[1].i >= 1
    /\ \E k \in DOMAIN filetable : IsDeletedName(k) /\ Len(filetable[k]) > 0
    /\ C11_MetadataInvariant

\* C15: when the store of the i-th chunk fails in write(f, d) or
\* write_append(f, d), the call ends with that error and nothing is undone or
\* tried again: the list of f holds all the uuids just allocated, the cursor
\* has moved by the whole number of chunks, of the chunks just allocated
\* exactly those before position i have a payload, and read(f) then fails
\* rather than return a part of the data.
C15_FailedWriteLeft ==
    [][\A c \in Clients :
          (done'[c] # done[c] /\ done'[c].failed_at > 0) =>
              LET d == done'[c]
                  f == d.filename
                  i == d.failed_at
                  new == d.allocated
                  n == Len(new)
                  after == [filetable |-> filetable', chunktable |-> chunktable',
                            chunkrobin |-> chunkrobin', uuid_clock |-> uuid_clock',
                            fs |-> fs', cs_chunktable |-> cs_chunktable']
              IN  /\ ~d.ok /\ d.err = IOError
                  /\ cl'[c].pc = "idle"
                  /\ f \in DOMAIN filetable'
                  /\ n = num_chunks(Len(d.arg))
                  /\ Len(filetable'[f]) >= n
                  /\ SubSeq(filetable'[f], Len(filetable'[f]) - n + 1,
                            Len(filetable'[f])) = new
                  /\ d.op = "write" => filetable'[f] = new
                  /\ chunkrobin' = (d.chunkrobin0 + n) % num_chunkservers
                  /\ \A j \in 1..n :
                        chunk_filename(chunktable'[new[j]], new[j]) \in DOMAIN fs'
                            <=> j < i
                  /\ ~client_read(after, f).ok
    ]_vars

\* C19: two clients on one master, each call of the master or of a chunkserver
\* atomic. When a read(f) of one client has run interleaved, call by call,
\* with one write(f, d) or write_append(f, d) of the other (and with no other
\* call), the read fails, or returns exactly the content f had when the other
\* call began, or exactly the content f has when the other call has ended;
\* never a mixture, a reordering or a part of them.
C19_NoTornRead ==
    LET r == done[2]
        o == done[1]
    IN  (/\ r.op = "read" /\ r.overlaps = 1
         /\ o.k = r.with /\ o.overlaps = 1
         /\ o.op \in {"write", "write_append"}
         /\ o.filename = r.filename
         /\ r.ok)
        => \/ o.before.exists /\ r.val = o.before.data
           \/ o.after.exists /\ r.val = o.after.data

\* a read that began before the other client's append allocated, and ended
\* after its last store, has returned the content with the appended bytes
C19_Witness ==
    LET r == done[2]
        o == done[1]
    IN  /\ r.op = "read" /\ r.overlaps = 1 /\ r.ok
        /\ o.k = r.with /\ o.overlaps = 1
        /\ o.op = "write_append" /\ o.filename = r.filename
        /\ r.k < o.k
        /\ Len(o.arg) > chunksize
        /\ o.before.exists /\ o.after.exists
        /\ r.val = o.after.data
        /\ r.val = o.before.data \o o.arg

====
